---- MODULE Spec2Model ----
(***************************************************************************)
(* Choropleth of county health indicators (js/main.js, js/map.js,          *)
(* js/data.js, js/chart.js): the shared `state` object, the DOM the three  *)
(* modules draw into, and the handlers that change them.                   *)
(*                                                                         *)
(* Numbers are JS numbers restricted to naturals, NaN and Infinity:        *)
(*   [k |-> "num", v |-> n], [k |-> "nan", v |-> 0], [k |-> "inf", v |-> 0]*)
(* Strings read from the CSV file are sequences of one-character strings.  *)
(***************************************************************************)
EXTENDS Integers, Sequences, FiniteSets, TLC

\* ------------------------------------------------------------------ bounds
NumRows == 11       \* rows (counties) of the CSV file
MaxPending == 2     \* data loads in flight at once
MaxAwaiting == 2    \* highlightCounties calls whose deferred callbacks have not run
HalfCharWidth == 3  \* half the width getBBox reports for one character

\* ------------------------------------------------------- program constants
MinValues == 2      \* data.js:61   expressedValues.length < 2
QuantileLimit == 5  \* data.js:69   unique.length < 5
MaxBreaks == 9      \* data.js:76   Math.min(9, unique.length - 1)
MaxScheme == 9      \* data.js:80   numColors <= 9

\* ------------------------------------------------------------- JS numbers
Num(n) == [k |-> "num", v |-> n]
NaN == [k |-> "nan", v |-> 0]
Infinity == [k |-> "inf", v |-> 0]

\* a string as a JS value
Str(s) == [k |-> "str", v |-> s]

isNaN(x) == x.k = "nan"
isFinite(x) == x.k = "num"

\* JS arithmetic and comparison where no operand is infinite: NaN spreads
\* through arithmetic and compares false
Plus(a, b) == IF a.k = "num" /\ b.k = "num" THEN Num(a.v + b.v) ELSE NaN
Minus(a, b) == IF a.k = "num" /\ b.k = "num" THEN Num(a.v - b.v) ELSE NaN
MathMax(a, b) ==
    IF a.k = "num" /\ b.k = "num" THEN (IF a.v >= b.v THEN a ELSE b) ELSE NaN
MathMin(a, b) ==
    IF a.k = "num" /\ b.k = "num" THEN (IF a.v <= b.v THEN a ELSE b) ELSE NaN
Geq(a, b) == a.k = "num" /\ b.k = "num" /\ a.v >= b.v
Leq(a, b) == a.k = "num" /\ b.k = "num" /\ a.v <= b.v

\* ------------------------------------------------------------- JS strings
DigitChars == <<"0", "1", "2", "3", "4", "5", "6", "7", "8", "9">>

IsDigit(c) == \E i \in DOMAIN DigitChars : DigitChars[i] = c

DigitOf(c) == (CHOOSE i \in DOMAIN DigitChars : DigitChars[i] = c) - 1

InfinityStr == <<"I", "n", "f", "i", "n", "i", "t", "y">>

RECURSIVE Digits(_)
\* the decimal text of a natural, as the CSV file holds it
Digits(n) ==
    IF n < 10 THEN <<DigitChars[n + 1]>>
    ELSE Digits(n \div 10) \o <<DigitChars[(n % 10) + 1]>>

RECURSIVE DigitsValue(_)
DigitsValue(s) ==
    IF s = <<>> THEN 0
    ELSE 10 * DigitsValue(SubSeq(s, 1, Len(s) - 1)) + DigitOf(s[Len(s)])

\* s.includes(c)
Includes(s, c) == \E i \in DOMAIN s : s[i] = c

\* s.replace(/,/g, '')
StripCommas(s) == SelectSeq(s, LAMBDA c : c # ",")

\* s.split(":")[0]
BeforeColon(s) ==
    IF Includes(s, ":")
    THEN SubSeq(s, 1, (CHOOSE i \in DOMAIN s :
                          s[i] = ":" /\ \A j \in 1..(i - 1) : s[j] # ":") - 1)
    ELSE s

\* unary plus on a string: "" is 0, decimal digits are their value,
\* "Infinity" is Infinity, anything else is NaN
ToNumber(s) ==
    IF s = <<>> THEN Num(0)
    ELSE IF \A i \in DOMAIN s : IsDigit(s[i]) THEN Num(DigitsValue(s))
    ELSE IF s = InfinityStr THEN Infinity
    ELSE NaN

\* the longest prefix of decimal digits
DigitPrefix(s) ==
    SubSeq(s, 1, CHOOSE n \in 0..Len(s) :
                     /\ \A i \in 1..n : IsDigit(s[i])
                     /\ (n < Len(s) => ~IsDigit(s[n + 1])))

\* parseFloat: the leading number, else NaN
ParseFloat(s) ==
    IF DigitPrefix(s) # <<>> THEN Num(DigitsValue(DigitPrefix(s)))
    ELSE IF Len(s) >= Len(InfinityStr) /\ SubSeq(s, 1, Len(InfinityStr)) = InfinityStr
         THEN Infinity
    ELSE NaN

\* +x for a JS value that is a number or a string
UnaryPlus(x) == IF x.k = "str" THEN ToNumber(x.v) ELSE x

\* ----------------------------------------------------------- Field Parser
\* data.js:47-51: "N:1" ratios keep the numerator, other text loses its
\* commas and is coerced with unary plus
Coerce(raw) ==
    IF Includes(raw, ":") THEN ParseFloat(BeforeColon(raw))
    ELSE ToNumber(StripCommas(raw))

\* data.js:35: the numeric test on the first row of a column
NumericHead(raw) == ~isNaN(ToNumber(BeforeColon(StripCommas(raw))))

\* ------------------------------------------------------------ the CSV file
\* The file's columns, in file order (csvData.columns).
Columns == <<"county", "f1", "f2">>

Fields == {"f1", "f2"}

CountyName(r) == <<"c">> \o Digits(r)

\* The shapes of column the file may hold; row r of each:
\*   distinct  every value different, the gaps narrowing towards the top
\*   grouped   three equal values, then distinct ones, the last "1,00"
\*   few       15 everywhere but 25 in the last row: two distinct values
\*   sparse    one number, one Infinity, text elsewhere
\*   holes     numbers mixed with "", text, a ratio and Infinity
\*   text      text in the first row, numbers below
Kinds == {"distinct", "grouped", "few", "sparse", "holes", "text"}

Cell(kind, r) ==
    CASE kind = "distinct" ->
            Digits((NumRows * (NumRows - 1) - (NumRows - r) * (NumRows - r + 1)) \div 2)
      [] kind = "grouped" ->
            IF r <= 3 THEN <<"5">>
            ELSE IF r = NumRows THEN <<"1", ",", "0", "0">>
            ELSE Digits(5 * r)
      [] kind = "few" -> IF r < NumRows THEN <<"1", "5">> ELSE <<"2", "5">>
      [] kind = "sparse" ->
            IF r = 1 THEN <<"5">>
            ELSE IF r = 2 THEN InfinityStr
            ELSE <<"n", "/", "a">>
      [] kind = "holes" ->
            CASE r = 1 -> <<"1", "0">>
              [] r = 2 -> <<>>
              [] r = 3 -> <<"a", "b", "c">>
              [] r = 4 -> <<"7", ":", "1">>
              [] r = 5 -> InfinityStr
              [] OTHER -> Digits(5 * r)
      [] kind = "text" -> IF r = 1 THEN <<"a", "b", "c">> ELSE Digits(r)

\* The file with the given shape for each field.
File(shape) ==
    [col \in {"county"} \cup Fields |->
        [r \in 1..NumRows |->
            IF col = "county" THEN CountyName(r) ELSE Cell(shape[col], r)]]

\* The county shapes of the TopoJSON file (countiesGeo.features, by NAME):
\* one per CSV row, and one county the CSV has no row for.
Features == [i \in 1..(NumRows + 1) |->
                IF i <= NumRows THEN CountyName(i) ELSE <<"x">>]

\* -------------------------------------------------------------- Classifier
Min2(a, b) == IF a <= b THEN a ELSE b

\* expressedValues.sort((a, b) => a - b)
Sorted(s) == SortSeq(s, LAMBDA a, b : a < b)

SetOf(s) == {s[i] : i \in DOMAIN s}

RECURSIVE Gcd(_, _)
Gcd(a, b) == IF b = 0 THEN a ELSE Gcd(b, a % b)

Lcm(a, b) == (a * b) \div Gcd(a, b)

RECURSIVE LcmUpTo(_)
LcmUpTo(n) == IF n <= 1 THEN 1 ELSE Lcm(LcmUpTo(n - 1), n)

RECURSIVE RunningSums(_, _)
\* the sums and the sums of squares of d[1..n], for n = 0 .. Len(d):
\* entry n + 1 holds those of the first n values
RunningSums(d, n) ==
    IF n = 0 THEN <<[sum |-> 0, sumSquares |-> 0]>>
    ELSE LET before == RunningSums(d, n - 1)
         IN  Append(before, [sum |-> before[n].sum + d[n],
                             sumSquares |-> before[n].sumSquares + d[n] * d[n]])

\* jenksMatrices' `variance = sumSquares - (sum * sum) / w` of d[lo..hi],
\* kept exact by scaling with `scale`, a multiple of every class size
Variance(sums, scale, lo, hi) ==
    LET w == hi - lo + 1
        sum == sums[hi + 1].sum - sums[lo].sum
        sumSquares == sums[hi + 1].sumSquares - sums[lo].sumSquares
    IN  scale * sumSquares - (scale \div w) * sum * sum

RECURSIVE MatrixCell(_, _, _, _, _, _, _)
\* jenksMatrices' inner loop for the first l values in j >= 2 classes: the
\* class start c runs from l down to 2, and a start replaces the best so
\* far when its cost is no greater (`>=`).  best.lcl = 0 stands for the
\* Infinity the cell starts with.  `prev` holds rows 1..l-1.
MatrixCell(sums, scale, prev, l, j, c, best) ==
    IF c < 2 THEN best
    ELSE LET cost == Variance(sums, scale, c, l) + prev[c - 1][j - 1].vc
         IN  MatrixCell(sums, scale, prev, l, j, c - 1,
                        IF best.lcl = 0 \/ best.vc >= cost
                        THEN [vc |-> cost, lcl |-> c]
                        ELSE best)

RECURSIVE MatrixRow(_, _, _, _, _)
\* cells 1..j of row l: varianceCombinations[l][j] and lowerClassLimits[l][j]
MatrixRow(sums, scale, prev, l, j) ==
    IF j = 0 THEN <<>>
    ELSE Append(MatrixRow(sums, scale, prev, l, j - 1),
                IF j = 1 THEN [vc |-> Variance(sums, scale, 1, l), lcl |-> 1]
                ELSE MatrixCell(sums, scale, prev, l, j, l, [vc |-> 0, lcl |-> 0]))

RECURSIVE FirstRow(_)
\* row 1: lowerClassLimits[1][i] = 1, varianceCombinations[1][i] = 0
FirstRow(j) ==
    IF j = 0 THEN <<>> ELSE Append(FirstRow(j - 1), [vc |-> 0, lcl |-> 1])

RECURSIVE JenksMatrices(_, _, _, _)
\* jenksMatrices(data, nClasses): rows 1..l of the matrices
JenksMatrices(sums, scale, nClasses, l) ==
    IF l = 1 THEN <<FirstRow(nClasses)>>
    ELSE LET prev == JenksMatrices(sums, scale, nClasses, l - 1)
         IN  Append(prev, MatrixRow(sums, scale, prev, l, nClasses))

RECURSIVE JenksBreaks(_, _, _, _)
\* jenksBreaks: kclass[0..countNum-1], walking the class starts down from
\* row k of lowerClassLimits
JenksBreaks(d, m, k, countNum) ==
    IF countNum = 0 THEN <<>>
    ELSE LET lcl == m[k][countNum].lcl
         IN  JenksBreaks(d, m, lcl - 1, countNum - 1) \o <<d[lcl]>>

\* ss.jenks(data, nClasses): nClasses + 1 values, the sample minimum, the
\* start of each further class, and the sample maximum
Jenks(d, nClasses) ==
    LET sums == RunningSums(d, Len(d))
        m == JenksMatrices(sums, LcmUpTo(Len(d)), nClasses, Len(d))
    IN  JenksBreaks(d, m, Len(d), nClasses) \o <<d[Len(d)]>>

\* Dedupe that keeps every entry
DedupeKeepAll(s) == s

RECURSIVE Dedupe(_)
\* [...new Set(s)]: first occurrences, in order
Dedupe(s) ==
    IF s = <<>> THEN <<>>
    ELSE LET init == Dedupe(SubSeq(s, 1, Len(s) - 1))
         IN  IF s[Len(s)] \in SetOf(init) THEN init ELSE Append(init, s[Len(s)])

\* data.js:76: numBreaks
NumBreaks(unique) == Min2(MaxBreaks, unique - 1)

\* JenksBreaksArray with rawBreaks.slice(1, -1): both ends dropped
JenksBreaksArrayInner(expressedValues) ==
    LET numBreaks == NumBreaks(Cardinality(SetOf(expressedValues)))
        rawBreaks == Jenks(expressedValues, numBreaks)
    IN  Dedupe(SubSeq(rawBreaks, 2, Len(rawBreaks) - 1))

\* data.js:76-78: breaksArray of the natural-breaks branch
JenksBreaksArray(expressedValues) ==
    LET numBreaks == NumBreaks(Cardinality(SetOf(expressedValues)))
        rawBreaks == Jenks(expressedValues, numBreaks)
    IN  Dedupe(SubSeq(rawBreaks, 2, Len(rawBreaks)))

\* data.js:79-87: the threshold scale over breaksArray; `field` records the
\* field whose values the breaks were computed from
ThresholdScale(breaksArray, field) ==
    [domain |-> breaksArray,
     numColors |-> Len(breaksArray) + 1,
     palette |-> IF Len(breaksArray) + 1 <= MaxScheme THEN "schemeReds"
                 ELSE "interpolateReds",
     field |-> field]

NoScale == [domain |-> <<>>, numColors |-> 0, palette |-> "null", field |-> "null"]

\* b <= x for a threshold b and a JS number x
AtMost(b, x) == x.k = "inf" \/ (x.k = "num" /\ b <= x.v)

RECURSIVE BisectRight(_, _, _, _)
\* d3.bisectRight(a, x, lo, hi), lo and hi counted from 0: the number of
\* entries of the ascending a that are <= x
BisectRight(a, x, lo, hi) ==
    IF lo >= hi THEN lo
    ELSE LET mid == (lo + hi) \div 2
         IN  IF AtMost(a[mid + 1], x)
             THEN BisectRight(a, x, mid + 1, hi)
             ELSE BisectRight(a, x, lo, mid)

\* state.colorScale(x), a d3.scaleThreshold: range[bisectRight(domain, x)],
\* and no color for NaN
ScaleColor(scale, x) ==
    IF isNaN(x) THEN [kind |-> "unknown", i |-> 0]
    ELSE [kind |-> "range", i |-> BisectRight(scale.domain, x, 0, Len(scale.domain))]

\* ------------------------------------------------------- Region Classifier
NoneTag == [kind |-> "none", v |-> 0]
OverflowTag == [kind |-> "overflow", v |-> 0]
BreakTag(b) == [kind |-> "break", v |-> b]

RECURSIVE ScanBreaksStrict(_, _, _)
\* ScanBreaks with `<` for `<=`
ScanBreaksStrict(value, breaksArray, i) ==
    IF i > Len(breaksArray) THEN OverflowTag
    ELSE IF value.k = "num" /\ value.v < breaksArray[i] THEN BreakTag(breaksArray[i])
    ELSE ScanBreaksStrict(value, breaksArray, i + 1)

RECURSIVE ScanBreaks(_, _, _)
\* map.js:121-124: the loop over breaksArray from index i (counted from 1)
ScanBreaks(value, breaksArray, i) ==
    IF i > Len(breaksArray) THEN OverflowTag
    ELSE IF Leq(value, Num(breaksArray[i])) THEN BreakTag(breaksArray[i])
    ELSE ScanBreaks(value, breaksArray, i + 1)

\* map.js:115-128: the data-break attribute of the county called name
DataBreak(records, field, name, breaksArray) ==
    IF name \in DOMAIN records
    THEN LET value == UnaryPlus(records[name][field])
         IN  IF ~isNaN(value) THEN ScanBreaks(value, breaksArray, 1) ELSE NoneTag
    ELSE NoneTag

\* map.js:106-111: the fill of the county called name
Fill(records, field, name, scale) ==
    IF name \in DOMAIN records THEN ScaleColor(scale, UnaryPlus(records[name][field]))
    ELSE [kind |-> "#ccc", i |-> 0]

\* map.js:100-128: one path.county per feature
CountyPaths(records, field, scale, breaksArray) ==
    [i \in DOMAIN Features |->
        [name |-> Features[i],
         fill |-> Fill(records, field, Features[i], scale),
         stroke |-> "#333",
         glowing |-> FALSE,
         dataBreak |-> DataBreak(records, field, Features[i], breaksArray)]]

\* ------------------------------------------------------ Label Layout Engine
SeedRadius == 60      \* map.js:163
SeedPadding == 10     \* map.js:169
MinRadius == 10       \* map.js:175
RadiusStep == 5       \* map.js:184
BubblePadding == 6    \* map.js:241
BubbleHeight == 28    \* map.js:243
ClampPadding == 6     \* map.js:246
RectRise == 16        \* map.js:258

\* 1000 * cos and 1000 * sin of the seed angle (i - 1.5) * 12 degrees
\* (map.js:162), for the i-th highlighted county, i counted from 0
Cos1000 == <<951, 995, 995, 951, 866, 743, 588, 407, 208, 0, -208, -407, -588,
             -743, -866>>
Sin1000 == <<-309, -105, 105, 309, 500, 669, 809, 914, 978, 1000, 978, 914, 809,
             669, 500>>

\* centroid + radius * cos(angle), on the unit grid (map.js:176-177)
Polar(c, radius, trig1000) ==
    IF c.k = "num" THEN Num(c.v + (radius * trig1000) \div 1000) ELSE NaN

\* map.js:179-182
InBounds(x, y, box) ==
    /\ Geq(x, Num(SeedPadding))
    /\ Leq(x, Num(box.width - SeedPadding))
    /\ Geq(y, Num(SeedPadding))
    /\ Leq(y, Num(box.height - SeedPadding))

RECURSIVE SeedWalk(_, _, _, _)
\* map.js:175-185: the radius steps down until the point is in bounds or
\* the radius would reach MinRadius
SeedWalk(centroid, i, radius, box) ==
    LET x == Polar(centroid[1], radius, Cos1000[i + 1])
        y == Polar(centroid[2], radius, Sin1000[i + 1])
    IN  IF InBounds(x, y, box) \/ radius - RadiusStep <= MinRadius
        THEN <<x, y>>
        ELSE SeedWalk(centroid, i, radius - RadiusStep, box)

\* map.js:187-188
SeedClamp(v, max) == MathMax(Num(SeedPadding), MathMin(v, Num(max - SeedPadding)))

RECURSIVE Grouped(_)
\* the digits of a natural with a comma before each group of three
Grouped(n) ==
    IF n < 1000 THEN Digits(n)
    ELSE Grouped(n \div 1000) \o <<",">>
         \o Digits((n % 1000) \div 100) \o Digits((n % 100) \div 10) \o Digits(n % 10)

\* data.js:112-117 for the numbers a field holds
formatNumber(value) ==
    CASE value.k = "num" -> Grouped(value.v)
      [] value.k = "inf" -> <<"inf">>
      [] OTHER -> <<"N", "a", "N">>

\* map.js:157-160: the text of a county's label, in a one-element sequence,
\* or <<>> when the county gets no label
LabelValue(records, field, name) ==
    IF name \notin DOMAIN records THEN <<>>
    ELSE LET rawValue == records[name][field]
         IN  IF rawValue.k = "str" /\ rawValue.v = <<>> THEN <<>>
             ELSE IF isNaN(UnaryPlus(rawValue))
                  THEN <<IF rawValue.k = "str" THEN rawValue.v ELSE formatNumber(NaN)>>
             ELSE <<formatNumber(UnaryPlus(rawValue))>>

\* The page: where the projection puts each county's centroid
\* (state.path.centroid), and the size of .map-wrapper.
\*   spread      centroids in a row across the middle
\*   top         centroids in a row just under the top edge
\*   coincident  every centroid at one point
\*   degenerate  as spread, but the first county's geometry is empty and
\*               its centroid is [NaN, NaN]
Layouts == {"spread", "top", "coincident", "degenerate"}

Centroid(layout, i) ==
    CASE layout = "spread" -> <<Num(40 + 20 * i), Num(100)>>
      [] layout = "top" -> <<Num(40 + 20 * i), Num(12)>>
      [] layout = "coincident" -> <<Num(150), Num(100)>>
      [] layout = "degenerate" ->
            IF i = 1 THEN <<NaN, NaN>> ELSE <<Num(40 + 20 * i), Num(100)>>

WideBox == [width |-> 300, height |-> 200]
NarrowBox == [width |-> 40, height |-> 200]

Scenes ==
    {[layout |-> l, box |-> WideBox] : l \in Layouts}
    \cup {[layout |-> "spread", box |-> NarrowBox]}

\* map.js:240: the wider of the two texts' boxes, for a fixed-width font
TextWidth(name, value) ==
    2 * HalfCharWidth * (IF Len(name) >= Len(value) THEN Len(name) ELSE Len(value))

\* map.js:143-146: the indices of the path.county elements whose
\* data-break equals breakValue, in document order.  raise() moves them
\* behind the others but keeps their order, and a county never changes its
\* data-break, so the order within a class is the order of Features.
Highlighted(counties, breakValue) ==
    SelectSeq([i \in DOMAIN counties |-> i],
              LAMBDA i : counties[i].dataBreak.kind = "break"
                         /\ counties[i].dataBreak.v = breakValue)

\* map.js:155-192: the label of the i-th highlighted county (i from 0), in
\* a one-element sequence, or <<>> when it gets none
LabelDatum(records, field, layout, box, feature, i) ==
    LET value == LabelValue(records, field, Features[feature])
    IN  IF value = <<>> THEN <<>>
        ELSE LET centroid == Centroid(layout, feature)
                 seed == SeedWalk(centroid, i, SeedRadius, box)
             IN  <<[countyName |-> Features[feature],
                    value |-> value[1],
                    centroid |-> centroid,
                    x |-> SeedClamp(seed[1], box.width),
                    y |-> SeedClamp(seed[2], box.height)]>>

RECURSIVE LabelData(_, _, _, _, _, _)
\* labelData after the each() over the first n highlighted counties
LabelData(records, field, layout, box, highlighted, n) ==
    IF n = 0 THEN <<>>
    ELSE LabelData(records, field, layout, box, highlighted, n - 1)
         \o LabelDatum(records, field, layout, box, highlighted[n], n - 1)

\* map.js:195-201: d3.forceSimulation moves every label's x and y through
\* 250 ticks of attraction to its centroid and of collision.  d3-force is
\* not part of the repository; a run is taken to end in one of these ways:
\*   pulled  every label half way to its centroid
\*   apart   as pulled, and the i-th label pushed i collision radii right
\* A coordinate that is NaN, or drawn to a NaN centroid, ends as NaN.
SimulationOutcomes == {"pulled", "apart"}

CollisionRadius == 60    \* map.js:198

HalfWay(a, b) == IF a.k = "num" /\ b.k = "num" THEN Num(a.v + (b.v - a.v) \div 2) ELSE NaN

Simulate(labelData, how) ==
    [i \in DOMAIN labelData |->
        LET d == labelData[i]
            x == HalfWay(d.x, d.centroid[1])
            y == HalfWay(d.y, d.centroid[2])
        IN  [d EXCEPT !.x = IF how = "apart" THEN Plus(x, Num(CollisionRadius * (i - 1)))
                               ELSE x,
                      !.y = y]]

\* map.js:206-213: the leader line of a label
CalloutLine(d) == [x1 |-> d.centroid[1], y1 |-> d.centroid[2], x2 |-> d.x, y2 |-> d.y]

\* map.js:216-234: the g.county-callout-group of a label: two texts at
\* (x, y - 4) and (x, y + 10), no rect yet.  `key` tells the groups of one
\* highlightCounties call from those of another.
CalloutGroup(d, key) ==
    [key |-> key, countyName |-> d.countyName, value |-> d.value,
     x |-> d.x, y |-> d.y, rect |-> <<>>]

\* map.js:242: bubbleWidth
BubbleWidth(name, value) == TextWidth(name, value) + BubblePadding * 2

\* map.js:250-251: the position of d after the clamp to the bubble
Reclamp(d, box) ==
    LET bubbleWidth == BubbleWidth(d.countyName, d.value)
    IN  [x |-> MathMax(Num((bubbleWidth \div 2) + ClampPadding),
                       MathMin(d.x, Num(box.width - (bubbleWidth \div 2) - ClampPadding))),
         y |-> MathMax(Num((BubbleHeight \div 2) + ClampPadding),
                       MathMin(d.y, Num(box.height - (BubbleHeight \div 2) - ClampPadding)))]

\* map.js:253-265: the group after its deferred callback: the texts moved
\* and the rect inserted
Bubbled(g, box) ==
    LET at == Reclamp(g, box)
        bubbleWidth == BubbleWidth(g.countyName, g.value)
    IN  [g EXCEPT !.x = at.x,
                  !.y = at.y,
                  !.rect = Append(@, [x |-> Minus(at.x, Num(bubbleWidth \div 2)),
                                      y |-> Minus(at.y, Num(RectRise)),
                                      width |-> bubbleWidth,
                                      height |-> BubbleHeight])]

\* ------------------------------------------------------------------- state
VARIABLES
    csv,              \* the CSV file d3.csv loads: column -> row -> text
    scene,            \* the page: centroid layout and size of .map-wrapper
    expressed,        \* state.expressed, "null" before the first load
    attrArray,        \* state.attrArray
    colorScale,       \* state.colorScale, NoScale for null
    healthByCounty,   \* state.healthByCounty: county name -> parsed row
    mapWrapper,       \* the svg.map elements in .map-wrapper; state.map is the last
    chartWrapper,     \* the svg elements in .chart-wrapper
    dropdownWrapper,  \* the select elements in .dropdown-wrapper
    pending,          \* Promise.all loads started and not yet resolved
    outcome,          \* how the last run of callback ended
    hover,            \* whether the pointer is over a stem or circle of a chart
    raf               \* the callbacks requestAnimationFrame holds, in order

vars == <<csv, scene, expressed, attrArray, colorScale, healthByCounty, mapWrapper,
          chartWrapper, dropdownWrapper, pending, outcome, hover, raf>>

\* map.js:17-26: the svg setMap appends, its viewBox the size of the wrapper
NewMap == [viewBox |-> scene.box, states |-> 0, counties |-> <<>>,
           lines |-> <<>>, groups |-> <<>>]

\* map.js:12-59
setMap ==
    /\ mapWrapper' = Append(mapWrapper, NewMap)
    /\ pending' = pending + 1

\* the default page, and the files every page is tried with
DefaultScene == [layout |-> "spread", box |-> WideBox]

Init ==
    /\ \E shape \in [Fields -> Kinds] :
       \E sc \in Scenes :
            /\ sc = DefaultScene \/ shape["f2"] = "text"
            /\ csv = File(shape)
            /\ scene = sc
    /\ expressed = "null"
    /\ attrArray = <<>>
    /\ colorScale = NoScale
    /\ healthByCounty = << >>
    /\ mapWrapper = <<>>
    /\ chartWrapper = <<>>
    /\ dropdownWrapper = <<>>
    /\ pending = 0
    /\ outcome = "none"
    /\ hover = FALSE
    /\ raf = <<>>

\* main.js: window.onload = setMap
WindowOnload ==
    /\ mapWrapper = <<>>
    /\ pending = 0
    /\ setMap
    /\ UNCHANGED <<csv, scene, expressed, attrArray, colorScale, healthByCounty,
                   chartWrapper, dropdownWrapper, outcome, hover, raf>>

\* data.js:31-36
NumericColumns(file) ==
    SelectSeq(Columns, LAMBDA col :
        /\ col # "county"
        /\ col # "fips"
        /\ col # "deaths"
        /\ NumericHead(file[col][1]))

\* data.js:44-53: each row with the expressed field replaced by its number
\* and the text it had kept as rawValue, under the row's county name
ParsedRows(file, field) ==
    [name \in {file["county"][r] : r \in 1..NumRows} |->
        LET r == CHOOSE r \in 1..NumRows : file["county"][r] = name
        IN  [f \in Fields |-> IF f = field THEN Coerce(file[f][r]) ELSE Str(file[f][r])]
            @@ [rawValue |-> Str(file[field][r])]]

\* data.js:56-59: the finite values of the field, ascending
ExpressedValues(file, field) ==
    LET values == [r \in 1..NumRows |-> Coerce(file[field][r])]
        kept == SelectSeq(values, LAMBDA v : ~isNaN(v) /\ isFinite(v))
    IN  Sorted([i \in DOMAIN kept |-> kept[i].v])

\* TooFewValues with the limit one lower
TooFewValuesOffByOne(expressedValues) == Len(expressedValues) < MinValues - 1

\* data.js:61
TooFewValues(expressedValues) == Len(expressedValues) < MinValues

\* data.js:67-69
TooFewUnique(expressedValues) == Cardinality(SetOf(expressedValues)) < QuantileLimit

\* data.js:38: the field callback works on
ExpressedNow(attrs) ==
    IF expressed # "null" THEN expressed
    ELSE IF attrs # <<>> THEN attrs[1]
    ELSE "null"

\* map.js:74-129 on the svg state.map refers to: the enter selection holds
\* the features only while the svg has no path.county yet
setCounties(map, records, field, scale, breaksArray) ==
    IF map.counties = <<>>
    THEN [map EXCEPT !.counties = CountyPaths(records, field, scale, breaksArray)]
    ELSE map

\* chart.js:17-176: the svg setChart appends; the circles carry breaksArray
\* and are filled by the scale passed in, the title is state.expressed
NewChart(field, scale, breaksArray) ==
    [title |-> field,
     breaks |-> breaksArray,
     circles |-> [i \in DOMAIN breaksArray |-> ScaleColor(scale, Num(breaksArray[i]))]]

\* data.js:126-158: the select createDropdown leaves in .dropdown-wrapper
NewDropdown(attrs) == <<[options |-> attrs]>>

\* data.js:20-104, run when the load of one setMap resolves
callback ==
    /\ pending > 0
    /\ pending' = pending - 1
    /\ UNCHANGED <<csv, scene, hover, raf>>
    /\ \E attrs \in {NumericColumns(csv)} :
       \E field \in {ExpressedNow(attrs)} :
        /\ attrArray' = attrs
        /\ expressed' = field
        /\ IF field = "null"
           THEN \* data.js:41: csvData[0][undefined].toString()
                /\ outcome' = "TypeError"
                /\ UNCHANGED <<colorScale, healthByCounty, mapWrapper, chartWrapper,
                               dropdownWrapper>>
           ELSE
           \E records \in {ParsedRows(csv, field)} :
           \E expressedValues \in {ExpressedValues(csv, field)} :
            /\ healthByCounty' = records
            /\ IF TooFewValues(expressedValues)
               THEN \* data.js:61-64
                    /\ outcome' = "Bad data column selected"
                    /\ UNCHANGED <<colorScale, mapWrapper, chartWrapper, dropdownWrapper>>
               ELSE IF TooFewUnique(expressedValues)
               THEN \* data.js:71: colorScale is declared nowhere and a module
                    \* is strict code, so the assignment throws
                    /\ outcome' = "ReferenceError"
                    /\ UNCHANGED <<colorScale, mapWrapper, chartWrapper, dropdownWrapper>>
               ELSE \* data.js:76-103
                    \E breaksArray \in {JenksBreaksArray(expressedValues)} :
                    \E scale \in {ThresholdScale(breaksArray, field)} :
                    \E map \in {mapWrapper[Len(mapWrapper)]} :
                        /\ colorScale' = scale
                        /\ mapWrapper' =
                             [mapWrapper EXCEPT ![Len(mapWrapper)] =
                                setCounties([map EXCEPT !.states = @ + 1],
                                            records, field, scale, breaksArray)]
                        /\ chartWrapper' =
                             Append(chartWrapper, NewChart(field, scale, breaksArray))
                        /\ dropdownWrapper' = NewDropdown(attrs)
                        /\ outcome' = "drawn"

\* data.js:166-173
updateVis ==
    /\ chartWrapper' = <<>>
    /\ mapWrapper' = <<NewMap>>
    /\ pending' = pending + 1

\* data.js:154-157: the change handler of the dropdown.  The chart under
\* the pointer, if any, goes away with its svg.
DropdownChange ==
    \E i \in DOMAIN dropdownWrapper :
        \E o \in DOMAIN dropdownWrapper[i].options :
            /\ pending < MaxPending
            /\ expressed' = dropdownWrapper[i].options[o]
            /\ updateVis
            /\ hover' = FALSE
            /\ UNCHANGED <<csv, scene, attrArray, colorScale, healthByCounty,
                           dropdownWrapper, outcome, raf>>

\* the keys of the highlightCounties calls whose callbacks have not run
Awaiting == {raf[i].key : i \in DOMAIN raf}

\* map.js:141-268 on the document's counties and the svg state.map
highlightCounties(map, breakValue, how, key) ==
    LET highlighted == Highlighted(map.counties, breakValue)
        labelData == Simulate(LabelData(healthByCounty, expressed, scene.layout,
                                        map.viewBox, highlighted, Len(highlighted)),
                              how)
    IN  [map EXCEPT
            !.counties = [i \in DOMAIN @ |->
                            IF \E h \in DOMAIN highlighted : highlighted[h] = i
                            THEN [@[i] EXCEPT !.stroke = "#999", !.glowing = TRUE]
                            ELSE @[i]],
            !.lines = @ \o [i \in DOMAIN labelData |-> CalloutLine(labelData[i])],
            !.groups = @ \o [i \in DOMAIN labelData |->
                                CalloutGroup(labelData[i], <<key, i>>)]]

\* chart.js:86-98, 114-131: mouseover on the stem or circle of a break
MouseOver ==
    \E c \in DOMAIN chartWrapper :
    \E b \in DOMAIN chartWrapper[c].breaks :
    \E how \in SimulationOutcomes :
    \E key \in {CHOOSE k \in 0..MaxAwaiting : k \notin {a[1] : a \in Awaiting}} :
    \E map \in {highlightCounties(mapWrapper[Len(mapWrapper)],
                                  chartWrapper[c].breaks[b], how, key)} :
        /\ ~hover
        /\ Cardinality({a[1] : a \in Awaiting}) < MaxAwaiting
        /\ hover' = TRUE
        /\ mapWrapper' = [mapWrapper EXCEPT ![Len(mapWrapper)] = map]
        /\ raf' = raf \o [i \in 1..(Len(map.groups)
                                    - Len(mapWrapper[Len(mapWrapper)].groups)) |->
                            [key |-> <<key, i>>]]
        /\ UNCHANGED <<csv, scene, expressed, attrArray, colorScale, healthByCounty,
                       chartWrapper, dropdownWrapper, pending, outcome>>

\* unhighlightCounties without the removal of the label groups
unhighlightCountiesKeepGroups(map) ==
    [map EXCEPT
        !.counties = [i \in DOMAIN @ |->
                        [@[i] EXCEPT !.stroke = "#333", !.glowing = FALSE]],
        !.lines = <<>>]

\* map.js:276-286 on every svg of the document
unhighlightCounties(map) ==
    [map EXCEPT
        !.counties = [i \in DOMAIN @ |->
                        [@[i] EXCEPT !.stroke = "#333", !.glowing = FALSE]],
        !.lines = <<>>,
        !.groups = <<>>]

\* chart.js:99-102, 132-135: mouseout
MouseOut ==
    /\ hover
    /\ hover' = FALSE
    /\ mapWrapper' = [i \in DOMAIN mapWrapper |-> unhighlightCounties(mapWrapper[i])]
    /\ UNCHANGED <<csv, scene, expressed, attrArray, colorScale, healthByCounty,
                   chartWrapper, dropdownWrapper, pending, outcome, raf>>

\* map.js:237-266: the next frame runs every callback requestAnimationFrame
\* holds.  One whose group is no longer in the document changes nothing
\* that is drawn; the others clamp against the viewBox of state.map.
AnimationFrame ==
    /\ raf # <<>>
    /\ raf' = <<>>
    /\ mapWrapper' =
         [i \in DOMAIN mapWrapper |->
            [mapWrapper[i] EXCEPT
                !.groups = [g \in DOMAIN @ |->
                              IF @[g].key \in Awaiting
                              THEN Bubbled(@[g], mapWrapper[Len(mapWrapper)].viewBox)
                              ELSE @[g]]]]
    /\ UNCHANGED <<csv, scene, expressed, attrArray, colorScale, healthByCounty,
                   chartWrapper, dropdownWrapper, pending, outcome, hover>>

Next ==
    \/ WindowOnload
    \/ callback
    \/ DropdownChange
    \/ MouseOver
    \/ MouseOut
    \/ AnimationFrame

Spec == Init /\ [][Next]_vars

\* ================================================================== claims
\* what the claims say of a drawn county: its parsed row, if it has one
HasRecord(county) == county.name \in DOMAIN healthByCounty
ValueOf(county) == healthByCounty[county.name][expressed]
RawTextOf(county) == healthByCounty[county.name]["rawValue"].v

\* v > b for a JS number v that is not NaN
Above(v, b) == v.k = "inf" \/ (v.k = "num" /\ v.v > b)

\* the path.county elements of the document
DrawnCounties ==
    UNION {{mapWrapper[m].counties[i] : i \in DOMAIN mapWrapper[m].counties} :
              m \in DOMAIN mapWrapper}

\* the label groups of the document
DrawnGroups ==
    UNION {{mapWrapper[m].groups[i] : i \in DOMAIN mapWrapper[m].groups} :
              m \in DOMAIN mapWrapper}

\* the Break Sets handed to setCounties and setChart and still on the page
BreakSets == {chartWrapper[c].breaks : c \in DOMAIN chartWrapper}

\* the rows of the selected field that hold a finite number
FiniteRows(field) == {r \in 1..NumRows : Coerce(csv[field][r]).k = "num"}

DistinctValues(field) == {Coerce(csv[field][r]).v : r \in FiniteRows(field)}

\* C1: a county's data-break is "none" exactly when it has no row or its
\* value is NaN; otherwise it is the first break, in ascending order, that
\* is >= the value, and "overflow" exactly when the value is above every
\* break.
C1_RegionClassifier ==
    \A county \in DrawnCounties : \A breaks \in BreakSets :
        /\ county.dataBreak.kind = "none"
              <=> (~HasRecord(county) \/ ValueOf(county).k = "nan")
        /\ (HasRecord(county) /\ ValueOf(county).k # "nan") =>
              /\ county.dataBreak.kind = "overflow"
                    <=> \A j \in DOMAIN breaks : Above(ValueOf(county), breaks[j])
              /\ county.dataBreak.kind = "break" =>
                    \E j \in DOMAIN breaks :
                        /\ breaks[j] = county.dataBreak.v
                        /\ ~Above(ValueOf(county), breaks[j])
                        /\ \A j2 \in 1..(j - 1) : Above(ValueOf(county), breaks[j2])

\* a map on which all the kinds of tag occur: a county without a row, one
\* with a NaN value, one above every break, one equal to its break and one
\* below it
C1_Witness ==
    /\ \E county \in DrawnCounties : ~HasRecord(county) /\ county.dataBreak.kind = "none"
    /\ \E county \in DrawnCounties :
          /\ HasRecord(county) /\ ValueOf(county).k = "nan"
          /\ county.dataBreak.kind = "none"
    /\ \E county \in DrawnCounties : county.dataBreak.kind = "overflow"
    /\ \E county \in DrawnCounties :
          county.dataBreak.kind = "break" /\ ValueOf(county).v = county.dataBreak.v
    /\ \E county \in DrawnCounties :
          county.dataBreak.kind = "break" /\ ValueOf(county).v < county.dataBreak.v

\* C2 (as claimed): the bucket whose color fills a county is the bucket of
\* the break it is tagged with: range[i] for breaks[i], counted from 0.
C2_FillMatchesTag ==
    \A county \in DrawnCounties : \A breaks \in BreakSets :
        county.dataBreak.kind = "break" =>
            /\ county.fill.kind = "range"
            /\ county.fill.i < Len(breaks)
            /\ breaks[county.fill.i + 1] = county.dataBreak.v

C4_EveryValueClassified ==
    \A county \in DrawnCounties :
        (/\ Cardinality(DistinctValues(expressed)) >= 5
         /\ HasRecord(county)
         /\ ValueOf(county).k = "num")
            => county.dataBreak.kind = "break"

\* a drawn county that holds the greatest value of its field, tagged with
\* the last break
C4_Witness ==
    \E county \in DrawnCounties : \E breaks \in BreakSets :
        /\ Cardinality(DistinctValues(expressed)) >= 5
        /\ HasRecord(county)
        /\ ValueOf(county).k = "num"
        /\ \A v \in DistinctValues(expressed) : v <= ValueOf(county).v
        /\ county.dataBreak = BreakTag(breaks[Len(breaks)])

\* C5 (as claimed): once the load for a field with 2 or more finite values
\* but fewer than 5 distinct ones has run, classification has completed
\* with 4 breaks, and the counties and the chart are drawn.
C5_QuantileCompletes ==
    (/\ pending = 0
     /\ expressed \in Fields
     /\ outcome # "none"
     /\ Cardinality(FiniteRows(expressed)) >= 2
     /\ Cardinality(DistinctValues(expressed)) < 5)
        => /\ outcome = "drawn"
           /\ chartWrapper # <<>>
           /\ \A breaks \in BreakSets : Len(breaks) = 4
           /\ DrawnCounties # {}

\* C6 (as claimed): once the load for the latest selection has run,
\* state.colorScale is not one built from the breaks of another field.
C6_ScaleOfCurrentField ==
    (pending = 0 /\ outcome # "none" /\ colorScale # NoScale)
        => colorScale.field = expressed

\* C7: a run of callback on a field with fewer than 2 finite values ends
\* in the error and draws nothing: the svg of the map stays empty, and the
\* chart, the dropdown and the color scale stay as they were.
C7_NoPartialMap ==
    [][(/\ pending' = pending - 1
        /\ expressed' \in Fields
        /\ Cardinality(FiniteRows(expressed')) < 2)
          => /\ outcome' = "Bad data column selected"
             /\ mapWrapper' = mapWrapper
             /\ mapWrapper'[Len(mapWrapper')].counties = <<>>
             /\ mapWrapper'[Len(mapWrapper')].states = 0
             /\ chartWrapper' = chartWrapper
             /\ dropdownWrapper' = dropdownWrapper
             /\ colorScale' = colorScale]_vars

\* the error after a change of field: a dropdown is on the page, the
\* selected field has fewer than 2 finite values, and its load has failed
C7_Witness ==
    /\ outcome = "Bad data column selected"
    /\ dropdownWrapper # <<>>
    /\ pending = 0
    /\ Cardinality(FiniteRows(expressed)) < 2

\* text that unary plus does not turn into a number, and empty text
Uncoercible(text) ==
    \/ text = <<>>
    \/ /\ text # InfinityStr
       /\ \E i \in DOMAIN text : ~IsDigit(text[i]) /\ text[i] # "," /\ text[i] # ":"

\* C8 (as claimed): a county whose text for the selected field is empty or
\* not a number has an invalid value, not zero, and is tagged "none".
C8_UncoercibleIsNoData ==
    \A county \in DrawnCounties :
        (HasRecord(county) /\ Uncoercible(RawTextOf(county)))
            => /\ ValueOf(county).k = "nan"
               /\ county.dataBreak.kind = "none"

\* C9 (as claimed): no label is made for a county whose text for the
\* selected field is empty or whose value is zero.
C9_NoLabelForEmpty ==
    \A g \in DrawnGroups :
        \A r \in 1..NumRows :
            csv["county"][r] = g.countyName =>
                /\ csv[expressed][r] # <<>>
                /\ Coerce(csv[expressed][r]) # Num(0)

\* C10 (as claimed): once its deferred callback has run, a bubble that fits
\* in the viewBox (and whose position is a number) has all four edges of
\* its rect at least 6 units inside the viewBox.
C10_BubbleInsideViewport ==
    \A m \in DOMAIN mapWrapper :
        \A i \in DOMAIN mapWrapper[m].groups :
            LET g == mapWrapper[m].groups[i]
                box == mapWrapper[m].viewBox
            IN  \A k \in DOMAIN g.rect :
                    (/\ g.rect[k].x.k = "num"
                     /\ g.rect[k].y.k = "num"
                     /\ g.rect[k].width + 12 <= box.width
                     /\ g.rect[k].height + 12 <= box.height)
                        => /\ g.rect[k].x.v >= 6
                           /\ g.rect[k].x.v + g.rect[k].width <= box.width - 6
                           /\ g.rect[k].y.v >= 6
                           /\ g.rect[k].y.v + g.rect[k].height <= box.height - 6

\* a map as unhighlightCounties leaves it: no leader line, no label group
\* (and so no bubble), every county with the default stroke and no glow
Unhighlighted(map) ==
    /\ map.lines = <<>>
    /\ map.groups = <<>>
    /\ \A i \in DOMAIN map.counties :
          map.counties[i].stroke = "#333" /\ ~map.counties[i].glowing

\* the labels a map shows are those of one highlightCounties call on the
\* break breakValue: the glowing counties are the counties of that break,
\* each label is of one of them, each has its leader line, and all come
\* from the same call
OnlyLabelsOf(map, breakValue) ==
    /\ \A i \in DOMAIN map.counties :
          map.counties[i].glowing <=> map.counties[i].dataBreak = BreakTag(breakValue)
    /\ \A g \in DOMAIN map.groups :
          \E i \in DOMAIN map.counties :
              /\ map.counties[i].name = map.groups[g].countyName
              /\ map.counties[i].dataBreak = BreakTag(breakValue)
    /\ \A g, h \in DOMAIN map.groups :
          /\ map.groups[g].key[1] = map.groups[h].key[1]
          /\ g # h => map.groups[g].countyName # map.groups[h].countyName
    /\ Len(map.lines) = Len(map.groups)

C11_WitnessLeft ==
    /\ ~hover
    /\ raf # <<>>
    /\ \E m \in DOMAIN mapWrapper : mapWrapper[m].counties # <<>>

\* the index in Features of the county of the name
FeatureOf(name) == CHOOSE i \in DOMAIN Features : Features[i] = name

\* C12 (as claimed): no label is placed for a county whose centroid is not
\* finite, and no placed label has an anchor or a position that is not a
\* finite number.
C12_DegenerateSkipped ==
    \A m \in DOMAIN mapWrapper :
        /\ \A g \in DOMAIN mapWrapper[m].groups :
              LET group == mapWrapper[m].groups[g]
                  centroid == Centroid(scene.layout, FeatureOf(group.countyName))
              IN  /\ centroid[1].k = "num" /\ centroid[2].k = "num"
                  /\ group.x.k = "num" /\ group.y.k = "num"
        /\ \A l \in DOMAIN mapWrapper[m].lines :
              LET line == mapWrapper[m].lines[l]
              IN  /\ line.x1.k = "num" /\ line.y1.k = "num"
                  /\ line.x2.k = "num" /\ line.y2.k = "num"

\* the counties of the map are the shapes setCounties draws for the field,
\* the scale and the breaks, whatever their highlight
DrawnFor(map, field, scale, breaksArray) ==
    /\ Len(map.counties) = Len(Features)
    /\ \A i \in DOMAIN map.counties :
          LET drawn == CountyPaths(healthByCounty, field, scale, breaksArray)[i]
          IN  /\ map.counties[i].name = drawn.name
              /\ map.counties[i].fill = drawn.fill
              /\ map.counties[i].dataBreak = drawn.dataBreak

\* C13 (as claimed): once every load has completed, and the last one drew,
\* the page holds exactly one chart and one map, and the chart, the
\* counties, their tags and state.colorScale are those of the last selected
\* field.
C13_OneChartAfterLoads ==
    (pending = 0 /\ outcome = "drawn") =>
        /\ Len(chartWrapper) = 1
        /\ Len(mapWrapper) = 1
        /\ chartWrapper[1].title = expressed
        /\ colorScale.field = expressed
        /\ DrawnFor(mapWrapper[1], expressed, colorScale, chartWrapper[1].breaks)

\* the same without the count of the charts: every chart on the page, the
\* counties, their tags and state.colorScale are those of the last selected
\* field
C13_LastFieldOnly ==
    (pending = 0 /\ outcome = "drawn") =>
        /\ Len(mapWrapper) = 1
        /\ colorScale.field = expressed
        /\ \A c \in DOMAIN chartWrapper :
              /\ chartWrapper[c].title = expressed
              /\ DrawnFor(mapWrapper[1], expressed, colorScale, chartWrapper[c].breaks)

\* two changes of field before the first of their loads completed, and both
\* loads completed since
C13_TwoCharts ==
    pending = 0 /\ outcome = "drawn" /\ Len(chartWrapper) = 2

====
